---- MODULE Spec2Model ----
(***************************************************************************)
(* Window::MainWindow (window/main_window.cpp): the stored window position, *)
(* its reconciliation with the current monitors at start-up                 *)
(* (countInitialGeometry), and its debounced saving (positionUpdated,       *)
(* savePosition) driven by window state, visibility and timer events.       *)
(*                                                                          *)
(* Lengths are in grid units.  A rectangle is a record [x, y, w, h] like    *)
(* QRect(x, y, w, h); a stored position is a record                         *)
(* [x, y, w, h, scale, moncrc, maximized] like Core::WindowPosition.        *)
(***************************************************************************)
EXTENDS Integers, Sequences, FiniteSets, TLC

VARIABLES
    env,                  \* monitors, frame, scale, work mode of this session
    position,             \* Core::App().settings().windowPosition()
    pc,                   \* "created" before initGeometry(), then "ready"
    arg,                  \* the position countInitialGeometry was called with
    geometry,             \* the rectangle countInitialGeometry returned
    windowState,          \* windowHandle()->windowState()
    visible,              \* isVisible()
    positionInited,       \* _positionInited
    maximizedBeforeHide,  \* _maximizedBeforeHide
    rect,                 \* body()->mapToGlobal(body()->rect())
    rightCol,             \* _rightColumn ? _rightColumn->width() : 0
    timerLeft,            \* _positionUpdatedTimer: -1 idle, else time to expiry
    sinceUpdate,          \* time since the last positionUpdated(), capped
    burst,                \* positionUpdated() calls since the last expiry, capped
    lastOp,               \* the handler that ran last
    called,               \* the last step ran savePosition
    wrote,                \* the last step called setWindowPosition
    repeat,               \* the last two steps both ran savePosition, same input
    computed              \* realPosition of the last step's savePosition, if any

vars == <<env, position, pc, arg, geometry, windowState, visible,
          positionInited, maximizedBeforeHide, rect, rightCol, timerLeft,
          sinceUpdate, burst, lastOp, called, wrote, repeat, computed>>

----------------------------------------------------------------------------
(* Program constants.  The st:: values come from the style sheet; the model *)
(* keeps their order (minimum < default < big default) on a coarse grid.    *)

kSaveWindowPositionTimeout == 1000

st_windowMinWidth == 2

st_windowMinHeight == 2

st_windowDefaultWidth == 3

st_windowDefaultHeight == 3

st_windowBigDefaultWidth == 4

st_windowBigDefaultHeight == 4

(* Bounds of the model. *)

MaxPos == 5

MaxSize == 5

MaxBurst == 2

TickMs == 500

----------------------------------------------------------------------------
(* Integer helpers with the semantics of the C++ operators. *)

Max(a, b) == IF a >= b THEN a ELSE b

Abs(a) == IF a >= 0 THEN a ELSE -a

\* C++ integer division truncates toward zero.
CDiv(a, b) == IF a >= 0 THEN a \div b ELSE -((-a) \div b)

Rect(x, y, w, h) == [x |-> x, y |-> y, w |-> w, h |-> h]

NoMargins == [l |-> 0, t |-> 0, r |-> 0, b |-> 0]

\* QRect::marginsRemoved
marginsRemoved(r, m) == Rect(r.x + m.l, r.y + m.t, r.w - m.l - m.r, r.h - m.t - m.b)

\* QRect::center: ((x1 + x2) / 2, (y1 + y2) / 2) with x2 = x + w - 1
center(r) == [x |-> CDiv(r.x + (r.x + r.w - 1), 2), y |-> CDiv(r.y + (r.y + r.h - 1), 2)]

\* (a - b).manhattanLength()
manhattanLength(a, b) == Abs(a.x - b.x) + Abs(a.y - b.y)

----------------------------------------------------------------------------
(* Monitors. *)

\* base::crc32 of the monitor's name: a fixed value per name.
screenNameChecksum(name) ==
    CASE name = "A" -> 11
      [] name = "B" -> 22
      [] name = "C" -> 33
      [] name = "D" -> 44
      [] OTHER -> 55

Screen(name, geo, avail) == [name |-> name, geometry |-> geo, availableGeometry |-> avail]

ScreenA == Screen("A", Rect(0, 0, 6, 5), Rect(0, 0, 6, 4))     \* taskbar below

ScreenB == Screen("B", Rect(6, 0, 4, 4), Rect(7, 0, 3, 4))     \* taskbar at left

ScreenC == Screen("C", Rect(0, 0, 2, 3), Rect(0, 0, 1, 3))     \* too narrow

ScreenD == Screen("D", Rect(-4, 1, 4, 4), Rect(-4, 1, 4, 4))   \* left of primary

ScreenA2 == Screen("A", Rect(6, 0, 5, 5), Rect(6, 0, 5, 5))    \* same name as A

\* QGuiApplication::screens() of a session; the first one is the primary.
Layouts == { <<>>, <<ScreenA>>, <<ScreenA, ScreenB>>, <<ScreenB, ScreenA>>,
             <<ScreenC>>, <<ScreenA, ScreenD>>, <<ScreenA, ScreenA2>> }

\* The window frame (geometry() against frameGeometry()) under a native frame.
NativeFrame == [l |-> 0, t |-> 1, r |-> 0, b |-> 0]

Scales == {100, 200}

WorkModes == {"WindowOnly", "TrayOnly"}

Env(screens, native, scale, third, mode) ==
    [screens |-> screens, nativeWindowFrame |-> native, cScale |-> scale,
     thirdColumnByDefault |-> third, workMode |-> mode]

WindowPosition(x, y, w, h, scale, moncrc, maximized) ==
    [x |-> x, y |-> y, w |-> w, h |-> h, scale |-> scale, moncrc |-> moncrc,
     maximized |-> maximized]

\* Core::WindowPosition of a fresh installation.
NoPosition == WindowPosition(0, 0, 0, 0, 0, 0, 0)

NoRect == Rect(0, 0, -1, -1)

----------------------------------------------------------------------------
(* positionFromSettings: the stored position scaled to the current scale.   *)
(* The scales of the model give factors 1/2, 1 and 2, which float64 holds   *)
(* exactly; "int *= double" truncates the product toward zero.              *)

ScaleInt(v, cScale, scale) == CDiv(v * cScale, scale)

positionFromSettings(p, e) ==
    IF p.scale = 0
        THEN p
        ELSE [p EXCEPT !.x = ScaleInt(p.x, e.cScale, p.scale),
                       !.y = ScaleInt(p.y, e.cScale, p.scale),
                       !.w = ScaleInt(p.w, e.cScale, p.scale),
                       !.h = ScaleInt(p.h, e.cScale, p.scale)]

----------------------------------------------------------------------------
(* countInitialGeometry *)

\* primaryScreen ? primaryScreen->availableGeometry() : QRect(0, 0, default)
primaryAvailable(e) ==
    IF Len(e.screens) > 0
        THEN e.screens[1].availableGeometry
        ELSE Rect(0, 0, st_windowDefaultWidth, st_windowDefaultHeight)

initialWidth(e) ==
    IF e.thirdColumnByDefault THEN st_windowBigDefaultWidth ELSE st_windowDefaultWidth

initialHeight(e) ==
    IF e.thirdColumnByDefault THEN st_windowBigDefaultHeight ELSE st_windowDefaultHeight

\* the centered default rectangle
initial(e) ==
    LET pa == primaryAvailable(e)
    IN  Rect(pa.x + Max(CDiv(pa.w - initialWidth(e), 2), 0),
             pa.y + Max(CDiv(pa.h - initialHeight(e), 2), 0),
             initialWidth(e),
             initialHeight(e))

\* indexes of the screens whose name checksum is moncrc
MatchingScreens(moncrc, e) ==
    { i \in 1..Len(e.screens) : moncrc = screenNameChecksum(e.screens[i].name) }

FindScreenOrPrimary(moncrc, e) ==
    IF MatchingScreens(moncrc, e) # {}
        THEN CHOOSE i \in MatchingScreens(moncrc, e) :
                 \A j \in MatchingScreens(moncrc, e) : i <= j
        ELSE IF Len(e.screens) > 0 THEN 1 ELSE 0

\* the first screen with the stored checksum; 0 stands for nullptr
FindScreen(moncrc, e) ==
    IF MatchingScreens(moncrc, e) = {}
        THEN 0
        ELSE CHOOSE i \in MatchingScreens(moncrc, e) :
                 \A j \in MatchingScreens(moncrc, e) : i <= j

frame(e) == IF ~e.nativeWindowFrame THEN NoMargins ELSE NativeFrame

spaceForInner(screen, e) == marginsRemoved(screen.availableGeometry, frame(e))

\* the usable area relative to the screen's origin: x, y, w, h of the code
Usable(screen, e) ==
    LET s == spaceForInner(screen, e)
    IN  Rect(s.x - screen.geometry.x, s.y - screen.geometry.y, s.w, s.h)

ClampSizeOnly(p, u) ==
    [p EXCEPT !.w = IF p.w > u.w THEN u.w ELSE p.w,
              !.h = IF p.h > u.h THEN u.h ELSE p.h]

\* if (position.x < x) position.x = x; ... if (position.h > h) position.h = h;
ClampToUsable(p, u) ==
    [p EXCEPT !.x = IF p.x < u.x THEN u.x ELSE p.x,
              !.y = IF p.y < u.y THEN u.y ELSE p.y,
              !.w = IF p.w > u.w THEN u.w ELSE p.w,
              !.h = IF p.h > u.h THEN u.h ELSE p.h]

FitRightShrinking(p, u) ==
    LET rightPoint == p.x + p.w
        screenRightPoint == u.x + u.w
    IN  IF rightPoint > screenRightPoint
            THEN [p EXCEPT !.w = p.w - (rightPoint - screenRightPoint)]
            ELSE p

\* the right edge: shift left by the overflow, or pin to the left and shrink
FitRight(p, u) ==
    LET rightPoint == p.x + p.w
        screenRightPoint == u.x + u.w
        distance == rightPoint - screenRightPoint
        newXPos == p.x - distance
    IN  IF rightPoint > screenRightPoint
            THEN IF newXPos >= u.x
                     THEN [p EXCEPT !.x = newXPos]
                     ELSE [p EXCEPT !.x = u.x,
                                    !.w = p.w - ((u.x + p.w) - screenRightPoint)]
            ELSE p

\* the bottom edge, likewise
FitBottom(p, u) ==
    LET bottomPoint == p.y + p.h
        screenBottomPoint == u.y + u.h
        distance == bottomPoint - screenBottomPoint
        newYPos == p.y - distance
    IN  IF bottomPoint > screenBottomPoint
            THEN IF newYPos >= u.y
                     THEN [p EXCEPT !.y = newYPos]
                     ELSE [p EXCEPT !.y = u.y,
                                    !.h = p.h - ((u.y + p.h) - screenBottomPoint)]
            ELSE p

ToGlobalXOnly(p, screen) == [p EXCEPT !.x = p.x + screen.geometry.x]

\* position.x += screenGeometry.x(); position.y += screenGeometry.y();
ToGlobal(p, screen) ==
    [p EXCEPT !.x = p.x + screen.geometry.x, !.y = p.y + screen.geometry.y]

\* the minimum footprint at (x, y) passes the screen's far edges
MinSizeOutside(p, screen) ==
    \/ p.x + st_windowMinWidth > screen.geometry.x + screen.geometry.w
    \/ p.y + st_windowMinHeight > screen.geometry.y + screen.geometry.h

ZeroSizeBoth(p) == p.w = 0 /\ p.h = 0

\* if (!position.w || !position.h)
ZeroSize(p) == p.w = 0 \/ p.h = 0

countInitialGeometry(p, e) ==
    IF ZeroSize(p) THEN initial(e)
    ELSE IF FindScreen(p.moncrc, e) = 0 THEN initial(e)
    ELSE LET screen == e.screens[FindScreen(p.moncrc, e)]
             u == Usable(screen, e)
             fitted == ToGlobal(FitBottom(FitRight(ClampToUsable(p, u), u), u), screen)
         IN  IF u.w < st_windowMinWidth \/ u.h < st_windowMinHeight
                 THEN initial(e)
             ELSE IF MinSizeOutside(fitted, screen)
                 THEN initial(e)
             ELSE Rect(fitted.x, fitted.y, fitted.w, fitted.h)

----------------------------------------------------------------------------
(* savePosition *)

WindowStates == {"NoState", "Minimized", "Maximized", "FullScreen"}

\* savePosition() without an argument passes Qt::WindowActive, which stands
\* for the window's current state.
EffectiveState(state, ws) == IF state = "Active" THEN ws ELSE state

SaveGateNoInited(eff, vis, inited) == eff = "Minimized" \/ ~vis

\* the early return: minimized, hidden, or position not yet initialized
SaveGate(eff, vis, inited) == eff = "Minimized" \/ ~vis \/ ~inited

RECURSIVE ChooseScreenLast(_, _, _, _, _, _)
ChooseScreenLast(i, chosen, minDelta, cx, cy, e) ==
    IF i > Len(e.screens) THEN chosen
    ELSE LET delta == manhattanLength(center(e.screens[i].geometry), [x |-> cx, y |-> cy])
         IN  IF chosen = 0 \/ delta <= minDelta
                 THEN ChooseScreenLast(i + 1, i, delta, cx, cy, e)
                 ELSE ChooseScreenLast(i + 1, chosen, minDelta, cx, cy, e)

RECURSIVE ChooseScreen(_, _, _, _, _, _)
\* the loop over screens: the first screen nearest to (cx, cy) by Manhattan
\* distance of its geometry's center; 0 stands for nullptr
ChooseScreen(i, chosen, minDelta, cx, cy, e) ==
    IF i > Len(e.screens) THEN chosen
    ELSE LET delta == manhattanLength(center(e.screens[i].geometry), [x |-> cx, y |-> cy])
         IN  IF chosen = 0 \/ delta < minDelta
                 THEN ChooseScreen(i + 1, i, delta, cx, cy, e)
                 ELSE ChooseScreen(i + 1, chosen, minDelta, cx, cy, e)

\* the record of a window that is not maximized
NormalPosition(r, rc, e) ==
    LET w == r.w - rc
        centerX == r.x + CDiv(w, 2)
        centerY == r.y + CDiv(r.h, 2)
        chosen == ChooseScreen(1, 0, 0, centerX, centerY, e)
    IN  IF chosen # 0
            THEN WindowPosition(r.x - e.screens[chosen].geometry.x,
                                r.y - e.screens[chosen].geometry.y,
                                w, r.h, e.cScale,
                                screenNameChecksum(e.screens[chosen].name), 0)
            ELSE WindowPosition(r.x, r.y, w, r.h, e.cScale, 0, 0)

MaximizedPositionWithRect(saved, r) ==
    [saved EXCEPT !.maximized = 1, !.x = r.x, !.y = r.y, !.w = r.w, !.h = r.h]

\* the record of a maximized window: the stored one with maximized set
MaximizedPosition(saved, r) == [saved EXCEPT !.maximized = 1]

realPosition(eff, saved, r, rc, e) ==
    IF eff = "Maximized" THEN MaximizedPosition(saved, r) ELSE NormalPosition(r, rc, e)

AcceptsAnySize(p) == TRUE

\* realPosition.w >= st::windowMinWidth && realPosition.h >= st::windowMinHeight
AcceptsSize(p) == p.w >= st_windowMinWidth /\ p.h >= st_windowMinHeight

DiffersAlways(p, saved) == TRUE

\* the field-by-field comparison with the stored record
Differs(p, saved) ==
    \/ p.x # saved.x
    \/ p.y # saved.y
    \/ p.w # saved.w
    \/ p.h # saved.h
    \/ p.scale # saved.scale
    \/ p.moncrc # saved.moncrc
    \/ p.maximized # saved.maximized

\* savePosition writes (setWindowPosition, saveSettingsDelayed)
SaveWrites(state, ws, vis, inited, saved, r, rc, e) ==
    LET eff == EffectiveState(state, ws)
        real == realPosition(eff, saved, r, rc, e)
    IN  /\ ~SaveGate(eff, vis, inited)
        /\ AcceptsSize(real)
        /\ Differs(real, saved)

\* the stored position after savePosition(state)
savePosition(state, ws, vis, inited, saved, r, rc, e) ==
    IF SaveWrites(state, ws, vis, inited, saved, r, rc, e)
        THEN realPosition(EffectiveState(state, ws), saved, r, rc, e)
        ELSE saved

----------------------------------------------------------------------------
(* The handlers. *)

\* The rectangles the window's body is moved and resized to by the user.
Rects == { Rect(1, 1, 3, 3), Rect(4, 0, 2, 2) }

RightColumnWidths == {0, 1}

\* the bookkeeping of a step that does not run savePosition
NoSave(op) ==
    /\ lastOp' = op
    /\ called' = FALSE
    /\ wrote' = FALSE
    /\ repeat' = "no"
    /\ computed' = NoPosition

\* the bookkeeping of a step that runs savePosition(state) after the handler
\* set the window state to ws and the visibility to vis
Save(op, state, ws, vis) ==
    /\ position' = savePosition(state, ws, vis, positionInited, position, rect, rightCol, env)
    /\ wrote' = SaveWrites(state, ws, vis, positionInited, position, rect, rightCol, env)
    /\ lastOp' = op
    /\ called' = TRUE
    /\ repeat' = IF called /\ EffectiveState(state, ws) = windowState /\ vis = visible
                     THEN IF wrote THEN "afterWrite" ELSE "afterNoop"
                     ELSE "no"
    /\ computed' = IF SaveGate(EffectiveState(state, ws), vis, positionInited)
                       THEN NoPosition
                       ELSE realPosition(EffectiveState(state, ws), position, rect,
                                         rightCol, env)

\* initGeometry(), on the path where initGeometryFromSystem() declines
InitGeometry ==
    /\ pc = "created"
    /\ pc' = "ready"
    /\ arg' = positionFromSettings(position, env)
    /\ geometry' = countInitialGeometry(arg', env)
    /\ rect' = geometry'
    /\ NoSave("init")
    /\ UNCHANGED <<env, position, windowState, visible, positionInited,
                   maximizedBeforeHide, rightCol, timerLeft, sinceUpdate, burst>>

setPositionInited ==
    /\ pc = "ready"
    /\ ~positionInited
    /\ positionInited' = TRUE
    /\ NoSave("inited")
    /\ UNCHANGED <<env, position, pc, arg, geometry, windowState, visible,
                   maximizedBeforeHide, rect, rightCol, timerLeft, sinceUpdate, burst>>

\* the user moves or resizes the window, or a right column is shown or hidden
GeometryChanged(r, rc) ==
    /\ pc = "ready"
    /\ <<r, rc>> # <<rect, rightCol>>
    /\ rect' = r
    /\ rightCol' = rc
    /\ NoSave("geometry")
    /\ UNCHANGED <<env, position, pc, arg, geometry, windowState, visible,
                   positionInited, maximizedBeforeHide, timerLeft, sinceUpdate, burst>>

positionUpdatedSavesNow ==
    /\ pc = "ready"
    /\ timerLeft' = kSaveWindowPositionTimeout
    /\ sinceUpdate' = 0
    /\ burst' = IF burst < MaxBurst THEN burst + 1 ELSE MaxBurst
    /\ Save("update", "Active", windowState, visible)
    /\ UNCHANGED <<env, pc, arg, geometry, windowState, visible,
                   positionInited, maximizedBeforeHide, rect, rightCol>>

positionUpdatedKeepsDeadline ==
    /\ pc = "ready"
    /\ timerLeft' = IF timerLeft >= 0 THEN timerLeft ELSE kSaveWindowPositionTimeout
    /\ sinceUpdate' = 0
    /\ burst' = IF burst < MaxBurst THEN burst + 1 ELSE MaxBurst
    /\ NoSave("update")
    /\ UNCHANGED <<env, position, pc, arg, geometry, windowState, visible,
                   positionInited, maximizedBeforeHide, rect, rightCol>>

\* _positionUpdatedTimer.callOnce(kSaveWindowPositionTimeout)
positionUpdated ==
    /\ pc = "ready"
    /\ timerLeft' = kSaveWindowPositionTimeout
    /\ sinceUpdate' = 0
    /\ burst' = IF burst < MaxBurst THEN burst + 1 ELSE MaxBurst
    /\ NoSave("update")
    /\ UNCHANGED <<env, position, pc, arg, geometry, windowState, visible,
                   positionInited, maximizedBeforeHide, rect, rightCol>>

\* time passes while the timer is pending
Tick ==
    /\ timerLeft > 0
    /\ timerLeft' = Max(timerLeft - TickMs, 0)
    /\ sinceUpdate' = IF sinceUpdate + TickMs < kSaveWindowPositionTimeout
                        THEN sinceUpdate + TickMs
                        ELSE kSaveWindowPositionTimeout
    /\ NoSave("tick")
    /\ UNCHANGED <<env, position, pc, arg, geometry, windowState, visible,
                   positionInited, maximizedBeforeHide, rect, rightCol, burst>>

\* the timer expires: _positionUpdatedTimer([=] { savePosition(); })
TimerFire ==
    /\ timerLeft = 0
    /\ timerLeft' = -1
    /\ burst' = 0
    /\ Save("timer", "Active", windowState, visible)
    /\ UNCHANGED <<env, pc, arg, geometry, windowState, visible, positionInited,
                   maximizedBeforeHide, rect, rightCol, sinceUpdate>>

\* minimizeToTray() hides the window: closeWithoutDestroy()
MinimizesToTray(state, tray) ==
    state = "Minimized" /\ env.workMode = "TrayOnly" /\ tray

\* windowStateChanged(state); tray: hasTrayIcon() and not quitting
handleStateChanged(state, tray) ==
    /\ pc = "ready"
    /\ state # windowState
    /\ windowState' = state
    /\ visible' = IF MinimizesToTray(state, tray) THEN FALSE ELSE visible
    /\ maximizedBeforeHide' = IF MinimizesToTray(state, tray) /\ visible
                                  THEN position.maximized # 0
                                  ELSE maximizedBeforeHide
    /\ Save("state", state, state, visible')
    /\ UNCHANGED <<env, pc, arg, geometry, positionInited, rect, rightCol,
                   timerLeft, sinceUpdate, burst>>

handleVisibleChangedKeepsFlag(v) ==
    /\ pc = "ready"
    /\ v # visible
    /\ visible' = v
    /\ IF v /\ maximizedBeforeHide /\ windowState # "Maximized"
           THEN /\ windowState' = "Maximized"
                /\ Save("visible", "Maximized", "Maximized", TRUE)
                /\ UNCHANGED maximizedBeforeHide
           ELSE /\ UNCHANGED maximizedBeforeHide
                /\ NoSave("visible")
                /\ UNCHANGED <<windowState, position>>
    /\ UNCHANGED <<env, pc, arg, geometry, positionInited, rect, rightCol,
                   timerLeft, sinceUpdate, burst>>

\* visibleChanged(v); showing a window that was maximized before it was hidden
\* sets the state, which runs handleStateChanged(Qt::WindowMaximized)
handleVisibleChanged(v) ==
    /\ pc = "ready"
    /\ v # visible
    /\ visible' = v
    /\ IF v /\ maximizedBeforeHide /\ windowState # "Maximized"
           THEN /\ windowState' = "Maximized"
                /\ Save("visible", "Maximized", "Maximized", TRUE)
                /\ UNCHANGED maximizedBeforeHide
           ELSE /\ maximizedBeforeHide' = IF v THEN maximizedBeforeHide
                                               ELSE position.maximized # 0
                /\ NoSave("visible")
                /\ UNCHANGED <<windowState, position>>
    /\ UNCHANGED <<env, pc, arg, geometry, positionInited, rect, rightCol,
                   timerLeft, sinceUpdate, burst>>

----------------------------------------------------------------------------
(* The life of a window: a stored position of an earlier session or none.   *)

StoredPositions ==
    { NoPosition,
      WindowPosition(8, 2, 3, 3, 200, 11, 0),
      WindowPosition(1, 0, 2, 2, 100, 22, 1) }

Envs ==
    { Env(l, FALSE, 100, FALSE, m) : l \in {<<ScreenA>>, <<ScreenA, ScreenB>>},
                                     m \in WorkModes }

Init ==
    /\ env \in Envs
    /\ position \in StoredPositions
    /\ pc = "created"
    /\ arg = NoPosition
    /\ geometry = NoRect
    /\ windowState = "NoState"
    /\ visible = FALSE
    /\ positionInited = FALSE
    /\ maximizedBeforeHide = FALSE
    /\ rect = NoRect
    /\ rightCol = 0
    /\ timerLeft = -1
    /\ sinceUpdate = 0
    /\ burst = 0
    /\ lastOp = "none"
    /\ called = FALSE
    /\ wrote = FALSE
    /\ repeat = "no"
    /\ computed = NoPosition

Next ==
    \/ InitGeometry
    \/ setPositionInited
    \/ \E r \in Rects, rc \in RightColumnWidths : GeometryChanged(r, rc)
    \/ positionUpdated
    \/ Tick
    \/ TimerFire
    \/ \E state \in WindowStates, tray \in BOOLEAN : handleStateChanged(state, tray)
    \/ \E v \in BOOLEAN : handleVisibleChanged(v)

Spec == Init /\ [][Next]_vars

\* One session under the event loop: time keeps passing while the timer is
\* pending, and an expired timer is dispatched.
InitTimer ==
    /\ Init
    /\ env = Env(<<ScreenA, ScreenB>>, FALSE, 100, FALSE, "TrayOnly")
    /\ position = NoPosition

SpecTimer == InitTimer /\ [][Next]_vars /\ WF_vars(Tick) /\ WF_vars(TimerFire)

----------------------------------------------------------------------------
(* countInitialGeometry over a range of stored positions and monitors.      *)

GeomEnvs ==
    { Env(l, FALSE, s, FALSE, "WindowOnly") : l \in Layouts, s \in Scales }
        \cup { Env(l, TRUE, 100, FALSE, "WindowOnly") : l \in Layouts }
        \cup { Env(l, FALSE, 100, TRUE, "WindowOnly") : l \in Layouts }

GeomPositions ==
    { WindowPosition(x, y, w, h, s, c, 0) :
          x \in -1..MaxPos, y \in -1..MaxPos, w \in 0..MaxSize, h \in 0..MaxSize,
          s \in {0} \cup Scales, c \in {0, 11, 22, 33, 44} }

InitGeom ==
    /\ env \in GeomEnvs
    /\ position \in GeomPositions
    /\ pc = "created"
    /\ arg = NoPosition
    /\ geometry = NoRect
    /\ windowState = "NoState"
    /\ visible = FALSE
    /\ positionInited = FALSE
    /\ maximizedBeforeHide = FALSE
    /\ rect = NoRect
    /\ rightCol = 0
    /\ timerLeft = -1
    /\ sinceUpdate = 0
    /\ burst = 0
    /\ lastOp = "none"
    /\ called = FALSE
    /\ wrote = FALSE
    /\ repeat = "no"
    /\ computed = NoPosition

NextGeom == InitGeometry

SpecGeom == InitGeom /\ [][NextGeom]_vars

----------------------------------------------------------------------------
(* Properties of countInitialGeometry (under SpecGeom).  They speak of arg, *)
(* the position the function was called with, and geometry, its result.     *)

Called == pc = "ready"

\* the centered default, written out
CenteredDefault ==
    LET pa == IF Len(env.screens) > 0
                  THEN env.screens[1].availableGeometry
                  ELSE Rect(0, 0, st_windowDefaultWidth, st_windowDefaultHeight)
        dw == IF env.thirdColumnByDefault
                  THEN st_windowBigDefaultWidth ELSE st_windowDefaultWidth
        dh == IF env.thirdColumnByDefault
                  THEN st_windowBigDefaultHeight ELSE st_windowDefaultHeight
        offX == IF pa.w - dw > 0 THEN (pa.w - dw) \div 2 ELSE 0
        offY == IF pa.h - dh > 0 THEN (pa.h - dh) \div 2 ELSE 0
    IN  Rect(pa.x + offX, pa.y + offY, dw, dh)

\* the usable area of screen i, relative to the screen's origin
UsableOf(i) ==
    LET s == env.screens[i]
        m == IF env.nativeWindowFrame THEN NativeFrame ELSE NoMargins
    IN  Rect(s.availableGeometry.x + m.l - s.geometry.x,
             s.availableGeometry.y + m.t - s.geometry.y,
             s.availableGeometry.w - m.l - m.r,
             s.availableGeometry.h - m.t - m.b)

UsableFits(i) ==
    UsableOf(i).w >= st_windowMinWidth /\ UsableOf(i).h >= st_windowMinHeight

\* arg, relative to screen i's origin, lies inside screen i's usable area
InsideUsable(i) ==
    /\ arg.x >= UsableOf(i).x
    /\ arg.y >= UsableOf(i).y
    /\ arg.x + arg.w <= UsableOf(i).x + UsableOf(i).w
    /\ arg.y + arg.h <= UsableOf(i).y + UsableOf(i).h

\* arg translated by screen i's global origin
Translated(i) ==
    Rect(arg.x + env.screens[i].geometry.x, arg.y + env.screens[i].geometry.y,
         arg.w, arg.h)

\* the first enumerated screen with arg's checksum (0: none)
FirstMatch ==
    IF \E i \in 1..Len(env.screens) : screenNameChecksum(env.screens[i].name) = arg.moncrc
        THEN CHOOSE i \in 1..Len(env.screens) :
                 /\ screenNameChecksum(env.screens[i].name) = arg.moncrc
                 /\ \A j \in 1..(i - 1) :
                        screenNameChecksum(env.screens[j].name) # arg.moncrc
        ELSE 0

\* the minimum window size at the translated position passes screen i's edges
MinFootprintOutside(i) ==
    \/ Translated(i).x + st_windowMinWidth
           > env.screens[i].geometry.x + env.screens[i].geometry.w
    \/ Translated(i).y + st_windowMinHeight
           > env.screens[i].geometry.y + env.screens[i].geometry.h

\* C1 as stated: a saved position (w # 0, h # 0) whose checksum matches an
\* enumerated monitor and whose rectangle lies inside that monitor's usable
\* area (usable area at least the minimum size) is returned translated by the
\* monitor's origin, never as the centered default.
C1_AsStated ==
    Called =>
        \A i \in 1..Len(env.screens) :
            ( /\ arg.w # 0 /\ arg.h # 0
              /\ screenNameChecksum(env.screens[i].name) = arg.moncrc
              /\ UsableFits(i)
              /\ InsideUsable(i) )
            => geometry = Translated(i)

\* C1: a saved position (w # 0, h # 0) that lies inside the usable area
\* (at least the minimum size) of the first enumerated monitor with its
\* checksum is returned translated by that monitor's origin when the minimum
\* window size at the translated x, y stays within the monitor's geometry,
\* which it does whenever w >= minWidth and h >= minHeight; otherwise the
\* centered default is returned.
C1_InsideUsableTranslated ==
    ( /\ Called
      /\ arg.w # 0 /\ arg.h # 0
      /\ FirstMatch # 0
      /\ UsableFits(FirstMatch)
      /\ InsideUsable(FirstMatch) )
    => /\ IF MinFootprintOutside(FirstMatch)
              THEN geometry = CenteredDefault
              ELSE geometry = Translated(FirstMatch)
       /\ (arg.w >= st_windowMinWidth /\ arg.h >= st_windowMinHeight)
              => geometry = Translated(FirstMatch)

C1_Witness ==
    /\ Called
    /\ arg.w >= st_windowMinWidth /\ arg.h >= st_windowMinHeight
    /\ FirstMatch = 2
    /\ env.nativeWindowFrame
    /\ UsableFits(2)
    /\ InsideUsable(2)
    /\ geometry = Translated(2)
    /\ geometry # CenteredDefault
    /\ position.scale = 200 /\ env.cScale = 100

\* C7: a saved position with w # 0 and h # 0 whose checksum is the name
\* checksum of no enumerated monitor gives the centered default on the
\* primary monitor, whatever its x, y, w, h.
C7_NoMonitorGivesDefault ==
    ( /\ Called
      /\ arg.w # 0 /\ arg.h # 0
      /\ \A i \in 1..Len(env.screens) :
             screenNameChecksum(env.screens[i].name) # arg.moncrc )
    => geometry = CenteredDefault

C7_Witness ==
    /\ Called
    /\ arg.w >= st_windowMinWidth /\ arg.h >= st_windowMinHeight
    /\ arg.moncrc = 22
    /\ env.screens = <<ScreenA>>
    /\ arg.x = 1 /\ arg.y = 1
    /\ geometry = CenteredDefault

\* C8: a saved position with w = 0 or h = 0 gives the centered default:
\* the default size, centered in the primary monitor's available area with
\* the offset clamped at 0, whatever the monitors and the other fields.
C8_ZeroSizeGivesDefault ==
    (Called /\ (arg.w = 0 \/ arg.h = 0)) => geometry = CenteredDefault

C8_Witness ==
    /\ Called
    /\ arg.w = 0 /\ arg.h = 3
    /\ arg.moncrc = 11
    /\ env.screens = <<ScreenC>>
    /\ geometry = CenteredDefault
    /\ geometry.x = 0

\* the x and w the right-edge rule gives for arg on the usable area u
RightRule(u) ==
    LET cx == IF arg.x < u.x THEN u.x ELSE arg.x
        cw == IF arg.w > u.w THEN u.w ELSE arg.w
        d == (cx + cw) - (u.x + u.w)
    IN  IF d > 0
            THEN IF cx - d >= u.x
                     THEN [x |-> cx - d, w |-> cw]
                     ELSE [x |-> u.x, w |-> cw - ((u.x + cw) - (u.x + u.w))]
            ELSE [x |-> cx, w |-> cw]

\* the y and h the bottom-edge rule gives for arg on the usable area u
BottomRule(u) ==
    LET cy == IF arg.y < u.y THEN u.y ELSE arg.y
        ch == IF arg.h > u.h THEN u.h ELSE arg.h
        d == (cy + ch) - (u.y + u.h)
    IN  IF d > 0
            THEN IF cy - d >= u.y
                     THEN [y |-> cy - d, h |-> ch]
                     ELSE [y |-> u.y, h |-> ch - ((u.y + ch) - (u.y + u.h))]
            ELSE [y |-> cy, h |-> ch]

RightOverflow(u) ==
    (IF arg.x < u.x THEN u.x ELSE arg.x) + (IF arg.w > u.w THEN u.w ELSE arg.w)
        > u.x + u.w

FullHD ==
    Env(<<Screen("A", Rect(0, 0, 1920, 1080), Rect(0, 0, 1920, 1080))>>,
        FALSE, 100, FALSE, "WindowOnly")

\* C9: after x, y are clamped to the usable area's top-left and w, h to its
\* size, a right edge that exceeds the usable right edge by d > 0 moves x
\* left by d with w unchanged when x - d is still >= the usable left edge,
\* and otherwise pins x to the usable left edge and takes the remaining
\* overflow off w; likewise for y, h and the bottom edge.  A result that is
\* not the centered default is the rectangle these rules give, translated;
\* usable area (0,0,1920,1080) and saved (1800,50,400,300) give
\* (1520,50,400,300).
C9_OverflowRule ==
    /\ ( /\ Called
         /\ arg.w # 0 /\ arg.h # 0
         /\ FirstMatch # 0
         /\ UsableFits(FirstMatch) )
       => LET u == UsableOf(FirstMatch)
              g == env.screens[FirstMatch].geometry
              expected == Rect(RightRule(u).x + g.x, BottomRule(u).y + g.y,
                               RightRule(u).w, BottomRule(u).h)
          IN  /\ geometry \in {expected, CenteredDefault}
              /\ ( /\ expected.x + st_windowMinWidth <= g.x + g.w
                   /\ expected.y + st_windowMinHeight <= g.y + g.h )
                     => geometry = expected
    /\ Called =>
           countInitialGeometry(WindowPosition(1800, 50, 400, 300, 100, 11, 0), FullHD)
               = Rect(1520, 50, 400, 300)

C9_Witness ==
    /\ Called
    /\ arg.w # 0 /\ arg.h # 0
    /\ FirstMatch = 1
    /\ UsableFits(1)
    /\ RightOverflow(UsableOf(1))
    /\ arg.x > UsableOf(1).x
    /\ geometry # CenteredDefault
    /\ geometry.w = arg.w
    /\ geometry.x < arg.x + env.screens[1].geometry.x

----------------------------------------------------------------------------
(* Properties of savePosition and of the debounce timer (under Spec).  After *)
(* a step that ran savePosition, windowState, visible and positionInited are *)
(* the values the call saw, and windowState is its effective state.          *)

\* C2: when savePosition runs twice in a row on the same window state,
\* rectangle, monitors and scale, the second run calls neither
\* setWindowPosition nor saveSettingsDelayed.
C2_SecondSaveWritesNothing == (repeat # "no") => ~wrote

C2_Witness ==
    /\ repeat = "afterWrite"
    /\ lastOp = "timer"
    /\ windowState = "NoState"
    /\ position.moncrc = 22
    /\ ~wrote

\* C3: savePosition writes nothing when the effective state is minimized, or
\* the window is not visible, or setPositionInited has not been called; no
\* write happens before the first setPositionInited, and a timer that fires
\* on a minimized window writes nothing.
C3_GatedSaveWritesNothing ==
    /\ (called /\ (windowState = "Minimized" \/ ~visible \/ ~positionInited)) => ~wrote
    /\ ~positionInited => ~wrote
    /\ (lastOp = "timer" /\ windowState = "Minimized") => ~wrote

C3_Witness ==
    /\ lastOp = "timer"
    /\ called
    /\ windowState = "Minimized"
    /\ visible
    /\ positionInited
    /\ position.maximized = 1
    /\ position.scale = 100
    /\ rect = Rect(4, 0, 2, 2)
    /\ position.x = 1

\* C4: a savePosition run on a maximized window changes at most the
\* maximized field of the stored position, and only to true: x, y, w, h,
\* scale and the monitor checksum stay as they were.
C4_MaximizedKeepsRect ==
    [][ (called' /\ windowState' = "Maximized")
            => /\ position' = [position EXCEPT !.maximized = position'.maximized]
               /\ position'.maximized \in {position.maximized, 1} ]_vars

C4_Witness ==
    /\ lastOp = "state"
    /\ windowState = "Maximized"
    /\ wrote
    /\ position.maximized = 1
    /\ position.moncrc = 11
    /\ <<position.x, position.y, position.w, position.h>> # <<rect.x, rect.y, rect.w, rect.h>>

\* C5 as stated: savePosition is invoked, and the stored position written,
\* only when the debounce timer fires.
C5_AsStated == called => lastOp = "timer"

\* C5: savePosition is invoked when the debounce timer fires and also,
\* without the timer, by every window-state change (handleStateChanged,
\* also when handleVisibleChanged restores the maximized state); the stored
\* position is written by no other step.
C5_SaveOnTimerOrStateChange ==
    /\ called => lastOp \in {"timer", "state", "visible"}
    /\ wrote => (called /\ lastOp \in {"timer", "state"})
    /\ lastOp \in {"timer", "state"} => called

C5_Witness ==
    /\ wrote
    /\ lastOp = "state"
    /\ timerLeft = -1
    /\ burst = 0
    /\ position.maximized = 0
    /\ position.w = 3

\* a pending expiry exists exactly while notifications are unsaved; it lies a
\* full delay after the last notification; the timer's savePosition runs at
\* that time and leaves no expiry pending
DebounceState ==
    /\ (timerLeft >= 0) <=> (burst > 0)
    /\ timerLeft >= 0 => timerLeft + sinceUpdate >= kSaveWindowPositionTimeout
    /\ lastOp = "timer" =>
           /\ called
           /\ sinceUpdate >= kSaveWindowPositionTimeout
           /\ timerLeft = -1
           /\ burst = 0

\* C6: every positionUpdated re-arms the one timer to the full delay and
\* cancels the pending expiry, so a burst of notifications, each arriving
\* before the previous expiry, leads to exactly one timer-driven savePosition
\* call, a full delay after the burst's last notification: unless
\* notifications keep arriving for ever, the timer ends up idle.
C6_Debounce ==
    /\ []DebounceState
    /\ ([]<>(timerLeft = -1) \/ []<><<positionUpdated>>_vars)

C6_Witness ==
    /\ lastOp = "timer"
    /\ called
    /\ wrote
    /\ timerLeft = -1
    /\ sinceUpdate >= kSaveWindowPositionTimeout

Computed ==
    IF windowState = "Maximized"
        THEN [position EXCEPT !.maximized = 1]
        ELSE NormalPosition(rect, rightCol, env)

----------------------------------------------------------------------------
(* The record savePosition computes for a window in its normal state. *)

\* the center savePosition takes of the window: x + w / 2, y + h / 2, with w
\* the body's width less the right column's
WindowCenter ==
    LET w == rect.w - rightCol
    IN  [x |-> rect.x + (IF w >= 0 THEN w \div 2 ELSE -((-w) \div 2)),
         y |-> rect.y + (IF rect.h >= 0 THEN rect.h \div 2 ELSE -((-rect.h) \div 2))]

\* the center of screen i's geometry: ((left + right) / 2, (top + bottom) / 2)
ScreenCenter(i) ==
    LET g == env.screens[i].geometry
        sx == g.x + (g.x + g.w - 1)
        sy == g.y + (g.y + g.h - 1)
    IN  [x |-> IF sx >= 0 THEN sx \div 2 ELSE -((-sx) \div 2),
         y |-> IF sy >= 0 THEN sy \div 2 ELSE -((-sy) \div 2)]

Distance(i) ==
    (IF ScreenCenter(i).x >= WindowCenter.x
         THEN ScreenCenter(i).x - WindowCenter.x
         ELSE WindowCenter.x - ScreenCenter(i).x)
    + (IF ScreenCenter(i).y >= WindowCenter.y
           THEN ScreenCenter(i).y - WindowCenter.y
           ELSE WindowCenter.y - ScreenCenter(i).y)

\* the first screen, in enumeration order, at the smallest distance
Nearest ==
    CHOOSE i \in 1..Len(env.screens) :
        /\ \A j \in 1..Len(env.screens) : Distance(i) <= Distance(j)
        /\ \A j \in 1..(i - 1) : Distance(j) > Distance(i)

NormalSave ==
    /\ called
    /\ visible
    /\ positionInited
    /\ windowState \notin {"Minimized", "Maximized"}
    /\ Len(env.screens) >= 1

\* C11: savePosition on a visible, initialized window that is neither
\* minimized nor maximized, with at least one monitor, picks the monitor whose
\* geometry center is nearest by Manhattan distance to the window rectangle's
\* center (the first such monitor on a tie); the record it computes has x, y
\* equal to the window's global x, y less that monitor's origin, that
\* monitor's name checksum, the current scale and maximized = false.
C11_NearestMonitorRecord ==
    NormalSave =>
        /\ computed.x = rect.x - env.screens[Nearest].geometry.x
        /\ computed.y = rect.y - env.screens[Nearest].geometry.y
        /\ computed.moncrc = screenNameChecksum(env.screens[Nearest].name)
        /\ computed.scale = env.cScale
        /\ computed.maximized = 0

C11_Witness ==
    /\ NormalSave
    /\ Len(env.screens) = 2
    /\ Distance(1) = Distance(2)
    /\ computed.moncrc = 11
    /\ computed.x = 4
    /\ wrote = FALSE
    /\ lastOp = "timer"

----------------------------------------------------------------------------
(* Containment of the rectangle countInitialGeometry returns (under SpecGeom). *)

\* the usable area of screen i in global coordinates
UsableGlobal(i) ==
    Rect(UsableOf(i).x + env.screens[i].geometry.x,
         UsableOf(i).y + env.screens[i].geometry.y,
         UsableOf(i).w, UsableOf(i).h)

\* C12: for a saved position with w > 0 and h > 0 and any monitor layout, a
\* result other than the centered default lies inside the matched monitor's
\* usable area in global coordinates, and is no wider and no higher than the
\* saved w and h.
C12_ResultInsideUsable ==
    (Called /\ arg.w > 0 /\ arg.h > 0 /\ geometry # CenteredDefault)
    => /\ FirstMatch # 0
       /\ geometry.x >= UsableGlobal(FirstMatch).x
       /\ geometry.y >= UsableGlobal(FirstMatch).y
       /\ geometry.x + geometry.w <= UsableGlobal(FirstMatch).x + UsableGlobal(FirstMatch).w
       /\ geometry.y + geometry.h <= UsableGlobal(FirstMatch).y + UsableGlobal(FirstMatch).h
       /\ geometry.w <= arg.w
       /\ geometry.h <= arg.h

C12_Witness ==
    /\ Called
    /\ arg.w > 0 /\ arg.h > 0
    /\ geometry # CenteredDefault
    /\ FirstMatch = 2
    /\ env.screens[2].name = "D"
    /\ arg.x < UsableOf(2).x
    /\ arg.w > UsableOf(2).w
    /\ arg.y + arg.h > UsableOf(2).y + UsableOf(2).h
    /\ geometry.x = UsableGlobal(2).x
    /\ geometry.w = UsableOf(2).w
    /\ geometry.w < arg.w

----------------------------------------------------------------------------
(* Maximize restore across hide and show (under Spec). *)

====
